---- MODULE Spec2Model ----
(***************************************************************************)
(* Model of bip39_find (src/main.py): a scanner that looks for BIP-39      *)
(* mnemonic phrases in the files of a directory.                           *)
(*                                                                         *)
(* A Python str is modelled as a sequence of one-character strings, so     *)
(* that slicing, splitting, replacing and joining are computed as the      *)
(* code computes them.                                                     *)
(***************************************************************************)
EXTENDS Integers, Sequences, FiniteSets, TLC

(***************************************************************************)
(* Characters and the str methods the code uses                            *)
(***************************************************************************)
LowerLetters == <<"a","b","c","d","e","f","g","h","i","j","k","l","m",
                  "n","o","p","q","r","s","t","u","v","w","x","y","z">>
UpperLetters == <<"A","B","C","D","E","F","G","H","I","J","K","L","M",
                  "N","O","P","Q","R","S","T","U","V","W","X","Y","Z">>

\* what str.split(), str.strip() and the regex class \s treat as whitespace
Whitespace == {" ", "\n", "\t"}

LowerChar(c) ==
    IF \E i \in 1..26 : UpperLetters[i] = c
    THEN LowerLetters[CHOOSE i \in 1..26 : UpperLetters[i] = c]
    ELSE c

\* str.lower()
Lower(s) == [i \in 1..Len(s) |-> LowerChar(s[i])]

\* the characters the class [a-zA-Z] keeps (the model's alphabet holds no
\* Cyrillic character, so the а-яА-Я part of the class is never exercised)
IsLetter(c) == \E i \in 1..26 : LowerLetters[i] = c \/ UpperLetters[i] = c

\* Python slice s[a:b] for 0 <= a (0-based, end exclusive, clamped)
Slice(s, a, b) ==
    LET hi == IF b > Len(s) THEN Len(s) ELSE b
    IN IF a >= hi THEN << >> ELSE SubSeq(s, a + 1, hi)

\* c in s
Contains(s, c) == \E i \in 1..Len(s) : s[i] = c

\* s.replace(sub, orig) for one-character sub and orig
Replace(s, sub, orig) == [i \in 1..Len(s) |-> IF s[i] = sub THEN orig ELSE s[i]]

\* s.startswith(p)
StartsWith(s, p) == Len(s) >= Len(p) /\ SubSeq(s, 1, Len(p)) = p

\* s.endswith(p)
EndsWith(s, p) == Len(s) >= Len(p) /\ SubSeq(s, Len(s) - Len(p) + 1, Len(s)) = p

\* str.strip()
Strip(s) ==
    LET keep == {i \in 1..Len(s) : s[i] \notin Whitespace}
    IN IF keep = {} THEN << >>
       ELSE LET a == CHOOSE i \in keep : \A j \in keep : i <= j
                b == CHOOSE i \in keep : \A j \in keep : i >= j
            IN SubSeq(s, a, b)

\* str.split(): the maximal runs of non-whitespace characters, in order
RECURSIVE SplitFrom(_, _, _, _)
SplitFrom(s, i, cur, acc) ==
    IF i > Len(s) THEN (IF cur = << >> THEN acc ELSE Append(acc, cur))
    ELSE IF s[i] \in Whitespace
         THEN SplitFrom(s, i + 1, << >>, IF cur = << >> THEN acc ELSE Append(acc, cur))
         ELSE SplitFrom(s, i + 1, Append(cur, s[i]), acc)

Split(s) == SplitFrom(s, 1, << >>, << >>)

\* " ".join(words)
RECURSIVE Join(_)
Join(words) ==
    IF Len(words) = 0 THEN << >>
    ELSE IF Len(words) = 1 THEN words[1]
    ELSE words[1] \o <<" ">> \o Join(Tail(words))

\* re.sub(r'[^a-zA-Zа-яА-Я]', '', word.lower())
CleanWord(word) == SelectSeq(Lower(word), IsLetter)

\* the elements of a sequence
Range(s) == {s[i] : i \in 1..Len(s)}

\* F applied to the value of x, with x evaluated once (an assignment to a
\* local variable followed by its uses)
With(x, F(_)) == CHOOSE r \in {F(v) : v \in {x}} : TRUE

(***************************************************************************)
(* Program state                                                           *)
(***************************************************************************)
VARIABLES
    MIN_PHRASE_LENGTH,   \* module global, line 13, reassigned at line 180
    MAX_PHRASE_LENGTH,   \* module global, line 14, reassigned at line 181
    MIN_BIP39_MATCHES,   \* module global, line 15, reassigned at line 182
    MAX_CHANGES,         \* module global, line 183
    pc,                  \* position of the main script
    isdir,               \* os.path.isdir(directory_to_scan)
    content,             \* per file: what open() and read() give
    walk,                \* directories os.walk has still to yield
    queue,               \* tasks submitted to the executor, not yet taken
    task,                \* per file: where its process_file call is
    found,               \* per file: the phrases extract_phrases_from_text returned
    written,             \* per file: number of lines appended to <ext>.txt
    errors,              \* files whose processing was logged as an error
    call                 \* last engine call made by the function harness

vars == <<MIN_PHRASE_LENGTH, MAX_PHRASE_LENGTH, MIN_BIP39_MATCHES, MAX_CHANGES,
          pc, isdir, content, walk, queue, task, found, written, errors, call>>

(***************************************************************************)
(* Wordlist and substitution table                                         *)
(***************************************************************************)
\* A sample of Mnemonic("english").wordlist: real BIP-39 words of 3 to 8
\* letters.
BIP39_WORDS == {
    <<"k","e","y">>, <<"a","l","l">>, <<"i","l","l">>, <<"o","i","l">>,
    <<"s","e","e","d">>, <<"l","a","m","p">>, <<"d","a","m","p">>, <<"i","t","e","m">>,
    <<"a","b","l","e">>, <<"a","b","o","u","t">>,
    <<"m","o","n","k","e","y">>, <<"a","b","s","o","r","b">>,
    <<"a","b","a","n","d","o","n">>,
    <<"a","b","o","v","e">>,
    <<"a","b","s","t","r","a","c","t">>, <<"a","c","c","i","d","e","n","t">> }

\* dict of line 18-25 in insertion order, flattened to (orig_char, sub) pairs in
\* the order the two loops of normalize_word visit them
COMMON_SUBSTITUTIONS ==
    << <<"a","@">>, <<"a","4">>, <<"o","0">>, <<"l","1">>, <<"l","I">>,
       <<"e","3">>, <<"s","$">>, <<"s","5">>, <<"i","1">>, <<"i","!">> >>

(***************************************************************************)
(* levenshtein_distance, is_similar_to_bip39, normalize_word               *)
(***************************************************************************)
Min3(a, b, c) == IF a <= b /\ a <= c THEN a ELSE IF b <= c THEN b ELSE c

\* inner loop of line 36-40: current_row grows by one entry per character of s2
RECURSIVE CurrentRow(_, _, _, _)
CurrentRow(c1, s2, previous_row, current_row) ==
    LET k == Len(current_row)
    IN IF k > Len(s2) THEN current_row
       ELSE LET insertions == previous_row[k + 1] + 1
                deletions == current_row[k] + 1
                substitutions == previous_row[k] + (IF c1 # s2[k] THEN 1 ELSE 0)
            IN CurrentRow(c1, s2, previous_row,
                          Append(current_row, Min3(insertions, deletions, substitutions)))

\* outer loop of line 34-41
RECURSIVE LevRows(_, _, _, _)
LevRows(s1, s2, i, previous_row) ==
    IF i > Len(s1) THEN previous_row
    ELSE LevRows(s1, s2, i + 1, CurrentRow(s1[i], s2, previous_row, <<i>>))

RECURSIVE levenshtein_distance(_, _)
levenshtein_distance(s1, s2) ==
    IF Len(s1) < Len(s2) THEN levenshtein_distance(s2, s1)
    ELSE IF Len(s2) = 0 THEN Len(s1)
    ELSE LET last == LevRows(s1, s2, 1, [k \in 1..(Len(s2) + 1) |-> k - 1])
         IN last[Len(last)]

\* mutant of is_similar_to_bip39: the comparison with max_changes made strict
is_similar_strict(word, max_changes, bip39_words) ==
    \E bip39_word \in bip39_words :
        /\ Len(word) = Len(bip39_word)
        /\ levenshtein_distance(word, bip39_word) < max_changes

\* lru_cache only memoizes: the value is that of the loop
is_similar_to_bip39(word, max_changes, bip39_words) ==
    \E bip39_word \in bip39_words :
        /\ Len(word) = Len(bip39_word)
        /\ levenshtein_distance(word, bip39_word) <= max_changes

RECURSIVE NormalizeFrom(_, _, _)
NormalizeFrom(word, substitutions, k) ==
    IF k > Len(substitutions) THEN word
    ELSE LET orig_char == substitutions[k][1]
             sub == substitutions[k][2]
             candidate == Replace(word, sub, orig_char)
         IN IF Contains(word, sub) /\ candidate \in BIP39_WORDS
            THEN candidate
            ELSE NormalizeFrom(word, substitutions, k + 1)

normalize_word(word, substitutions) ==
    LET w == Lower(word)
    IN IF w \in BIP39_WORDS THEN w ELSE NormalizeFrom(w, substitutions, 1)

(***************************************************************************)
(* clean_prefix_suffix                                                     *)
(***************************************************************************)
Prefixes == << <<"m","y","s","e","e","d">>, <<"b","t","c">>,
               <<"w","a","l","l","e","t">>, <<"p","h","r","a","s","e">>,
               <<"s","e","e","d">> >>
Suffixes == << <<"1","2","3">>, <<"p","a","s","s">>, <<"k","e","y">> >>

\* re.match(r'^(myseed|btc|wallet|phrase|seed)\s*(.+)', text, re.IGNORECASE):
\* the k-th alternative matches when text starts with it (any case), and after
\* some run of whitespace there is a character other than a newline for (.+)
PrefixMatches(text, k) ==
    LET p == Prefixes[k]
    IN /\ StartsWith(Lower(text), p)
       /\ \E j \in (Len(p) + 1)..Len(text) :
             /\ text[j] # "\n"
             /\ \A i \in (Len(p) + 1)..(j - 1) : text[i] \in Whitespace

\* re.match(r'(.+)\s*(123|pass|key)$', text, re.IGNORECASE): $ is the end of
\* the text or just before a final newline; (.+) is greedy and stops at the
\* first newline, \s* must cover what is left before the suffix.  The value
\* is the end of group(1), or 0 when there is no match.
SuffixGroup1End(text) ==
    LET n == IF Len(text) > 0 /\ text[Len(text)] = "\n" THEN {Len(text), Len(text) - 1}
             ELSE {Len(text)}
        ends == {e \in 1..Len(text) :
                    \E m \in n : \E k \in 1..Len(Suffixes) :
                        /\ m - Len(Suffixes[k]) >= e
                        /\ Lower(SubSeq(text, m - Len(Suffixes[k]) + 1, m)) = Suffixes[k]
                        /\ \A i \in 1..e : text[i] # "\n"
                        /\ \A i \in (e + 1)..(m - Len(Suffixes[k])) : text[i] \in Whitespace}
    IN IF ends = {} THEN 0 ELSE CHOOSE e \in ends : \A x \in ends : x <= e

clean_prefix_suffix(text) ==
    IF \E k \in 1..Len(Prefixes) : PrefixMatches(text, k)
    THEN LET k == CHOOSE k \in 1..Len(Prefixes) :
                     /\ PrefixMatches(text, k)
                     /\ \A j \in 1..(k - 1) : ~PrefixMatches(text, j)
         IN Strip(SubSeq(text, 1, Len(Prefixes[k])))
    ELSE IF SuffixGroup1End(text) > 0
    THEN Strip(SubSeq(text, 1, SuffixGroup1End(text)))
    ELSE text

(***************************************************************************)
(* is_valid_phrase                                                         *)
(***************************************************************************)
\* line 79
NormalizedWords(words, substitutions) ==
    [i \in 1..Len(words) |-> normalize_word(words[i], substitutions)]

\* mutant of HasDuplicates: a word may appear twice, not three times
HasTripleRepeat(normalized_words) ==
    \E w \in Range(normalized_words) :
        Cardinality({i \in 1..Len(normalized_words) : normalized_words[i] = w}) > 2

\* line 82: len(normalized_words) != len(set(normalized_words))
HasDuplicates(normalized_words) ==
    Len(normalized_words) # Cardinality(Range(normalized_words))

\* line 86-90: one hit per word that is a wordlist word or similar to one
IsHit(word, max_changes) ==
    \/ word \in BIP39_WORDS
    \/ is_similar_to_bip39(word, max_changes, BIP39_WORDS)

\* line 85-90
Bip39Count(normalized_words, max_changes) ==
    Cardinality({i \in 1..Len(normalized_words) : IsHit(normalized_words[i], max_changes)})

\* line 95-97: true when the check rejects the phrase
LengthHeuristicFails(original_phrase) ==
    /\ ~Contains(original_phrase, " ")
    /\ ~Contains(original_phrase, "-")
    /\ ~(/\ MIN_PHRASE_LENGTH * 8 <= Len(original_phrase)
         /\ Len(original_phrase) <= MAX_PHRASE_LENGTH * 8)

is_valid_phrase(words, original_phrase, max_changes, substitutions) ==
    With(NormalizedWords(words, substitutions), LAMBDA normalized_words :
        IF ~(/\ MIN_PHRASE_LENGTH <= Len(normalized_words)
             /\ Len(normalized_words) <= MAX_PHRASE_LENGTH)
        THEN FALSE
        ELSE IF HasDuplicates(normalized_words) THEN FALSE
        ELSE IF Bip39Count(normalized_words, max_changes) < MIN_BIP39_MATCHES THEN FALSE
        ELSE IF LengthHeuristicFails(original_phrase) THEN FALSE
        ELSE TRUE)

(***************************************************************************)
(* extract_phrases_from_text                                               *)
(***************************************************************************)
\* mutant of OriginalPhrase: the slice of the original words is one too long
OriginalPhraseOneMore(words, i, length) == Join(Slice(words, i, i + length + 1))

\* line 113 and 125: " ".join(words[i:i + length])
OriginalPhrase(words, i, length) == Join(Slice(words, i, i + length))

\* the double loop of line 109-115 and of line 121-127 over the tokens `words`
WindowPhrases(words, max_changes, substitutions) ==
    With([k \in 1..Len(words) |-> CleanWord(words[k])], LAMBDA cleaned_words :
        LET accepted == {w \in (0..(Len(cleaned_words) - 1))
                                 \X (MIN_PHRASE_LENGTH..MAX_PHRASE_LENGTH) :
                            /\ w[1] + w[2] <= Len(cleaned_words)
                            /\ \E phrase \in {Slice(cleaned_words, w[1], w[1] + w[2])},
                                  original_phrase \in {OriginalPhrase(words, w[1], w[2])} :
                                  is_valid_phrase(phrase, original_phrase,
                                                  max_changes, substitutions)}
        IN {OriginalPhrase(words, w[1], w[2]) : w \in accepted})

\* line 107-115
SpacedPhrases(text, max_changes, substitutions) ==
    With(Split(text), LAMBDA words : WindowPhrases(words, max_changes, substitutions))

\* line 118-127
HyphenPhrases(text, max_changes, substitutions) ==
    IF Contains(text, "-")
    THEN With(Split(Replace(text, "-", " ")),
              LAMBDA words : WindowPhrases(words, max_changes, substitutions))
    ELSE {}

\* line 133: [chunk[j:j+8] for j in range(0, len(chunk), 8) if len(chunk[j:j+8]) >= 3]
ChunkWords(chunk) ==
    LET pieces == [k \in 1..((Len(chunk) + 7) \div 8) |-> Slice(chunk, 8 * (k - 1), 8 * k)]
        longEnough(piece) == Len(piece) >= 3
    IN SelectSeq(pieces, longEnough)

\* line 130-137
ChunkPhrases(text, max_changes, substitutions) ==
    IF Len(text) >= MIN_PHRASE_LENGTH * 8
    THEN LET wordsAt(i) == ChunkWords(Slice(text, i, i + MAX_PHRASE_LENGTH * 8))
             accepted == {i \in 0..(Len(text) - MIN_PHRASE_LENGTH * 8) :
                             \E words \in {wordsAt(i)} :
                                 /\ Len(words) >= MIN_PHRASE_LENGTH
                                 /\ \E original_phrase \in {Join(words)} :
                                       is_valid_phrase(words, original_phrase,
                                                       max_changes, substitutions)}
         IN {Join(wordsAt(i)) : i \in accepted}
    ELSE {}

\* line 104 and the three passes, each on the cleaned text
ExtractPasses(text, max_changes, substitutions) ==
    With(clean_prefix_suffix(text), LAMBDA cleaned :
        [cleaned |-> cleaned,
         spaced |-> SpacedPhrases(cleaned, max_changes, substitutions),
         hyphen |-> HyphenPhrases(cleaned, max_changes, substitutions),
         chunked |-> ChunkPhrases(cleaned, max_changes, substitutions)])

\* the set `phrases` of line 103, as returned at line 139
extract_phrases_from_text(text, max_changes, substitutions) ==
    With(ExtractPasses(text, max_changes, substitutions), LAMBDA passes :
        passes.spaced \cup passes.hyphen \cup passes.chunked)

(***************************************************************************)
(* The script: parameters, scan_directory, the pool running process_file   *)
(***************************************************************************)
NFiles == 2          \* files under the scanned directory
MaxWorkers == 2      \* threads of the ThreadPoolExecutor
MaxParam == 3        \* largest value typed for a phrase-length parameter

Files == 1..NFiles

W_lamp == <<"l","a","m","p">>
W_damp == <<"d","a","m","p">>
W_all == <<"a","l","l">>

\* what a file can hold: open() raises, or read() gives the text
FileContents ==
    { [readable |-> FALSE, text |-> << >>],
      [readable |-> TRUE, text |-> W_lamp],
      [readable |-> TRUE, text |-> Join(<<W_lamp, W_damp, W_all>>)] }

\* os.walk: the root directory with files 1..k, then a subdirectory with the rest
Walks == { << [f \in 1..k |-> f], [f \in 1..(NFiles - k) |-> k + f] >> : k \in 0..NFiles }

NoCall == [fn |-> "none"]

Init ==
    /\ MIN_PHRASE_LENGTH = 12
    /\ MAX_PHRASE_LENGTH = 24
    /\ MIN_BIP39_MATCHES = 3
    /\ MAX_CHANGES = 0
    /\ pc = "params"
    /\ isdir \in BOOLEAN
    /\ content \in [Files -> FileContents]
    /\ walk \in Walks
    /\ queue = << >>
    /\ task = [f \in Files |-> "none"]
    /\ found = [f \in Files |-> {}]
    /\ written = [f \in Files |-> 0]
    /\ errors = {}
    /\ call = NoCall

\* line 180-183: the four int(input(...)) assignments; nothing compares them
ReadParameters ==
    /\ pc = "params"
    /\ \E lo \in 2..MaxParam, hi \in 2..MaxParam, matches \in 1..2, changes \in 0..1 :
         /\ MIN_PHRASE_LENGTH' = lo
         /\ MAX_PHRASE_LENGTH' = hi
         /\ MIN_BIP39_MATCHES' = matches
         /\ MAX_CHANGES' = changes
    /\ pc' = "isdir"
    /\ UNCHANGED <<isdir, content, walk, queue, task, found, written, errors, call>>

\* line 197-202
CheckDirectory ==
    /\ pc = "isdir"
    /\ pc' = IF isdir THEN "walking" ELSE "not_dir"
    /\ UNCHANGED <<MIN_PHRASE_LENGTH, MAX_PHRASE_LENGTH, MIN_BIP39_MATCHES, MAX_CHANGES,
                   isdir, content, walk, queue, task, found, written, errors, call>>

\* line 166-168: one iteration of the os.walk loop; executor.map submits every
\* file of the directory before it returns
SubmitDirectory ==
    /\ pc = "walking"
    /\ walk # << >>
    /\ queue' = queue \o Head(walk)
    /\ task' = [f \in Files |-> IF f \in Range(Head(walk)) THEN "queued" ELSE task[f]]
    /\ walk' = Tail(walk)
    /\ UNCHANGED <<MIN_PHRASE_LENGTH, MAX_PHRASE_LENGTH, MIN_BIP39_MATCHES, MAX_CHANGES,
                   pc, isdir, content, found, written, errors, call>>

\* line 165: leaving the with block calls executor.shutdown(wait=True)
LeaveWith ==
    /\ pc = "walking"
    /\ walk = << >>
    /\ pc' = "joining"
    /\ UNCHANGED <<MIN_PHRASE_LENGTH, MAX_PHRASE_LENGTH, MIN_BIP39_MATCHES, MAX_CHANGES,
                   isdir, content, walk, queue, task, found, written, errors, call>>

Running == {f \in Files : task[f] \in {"open", "extract", "write", "except"}}

\* shutdown(wait=True) returns once every submitted task has run; line 199-200
ScanReturns ==
    /\ pc = "joining"
    /\ queue = << >>
    /\ Running = {}
    /\ pc' = "done"
    /\ UNCHANGED <<MIN_PHRASE_LENGTH, MAX_PHRASE_LENGTH, MIN_BIP39_MATCHES, MAX_CHANGES,
                   isdir, content, walk, queue, task, found, written, errors, call>>

\* an idle pool thread takes the oldest submitted task and enters process_file
TakeTask ==
    /\ queue # << >>
    /\ Cardinality(Running) < MaxWorkers
    /\ task' = [task EXCEPT ![Head(queue)] = "open"]
    /\ queue' = Tail(queue)
    /\ UNCHANGED <<MIN_PHRASE_LENGTH, MAX_PHRASE_LENGTH, MIN_BIP39_MATCHES, MAX_CHANGES,
                   pc, isdir, content, walk, found, written, errors, call>>

\* line 144-145: open and read; an unreadable file raises inside the try
OpenRead(f) ==
    /\ task[f] = "open"
    /\ task' = [task EXCEPT ![f] = IF content[f].readable THEN "extract" ELSE "except"]
    /\ UNCHANGED <<MIN_PHRASE_LENGTH, MAX_PHRASE_LENGTH, MIN_BIP39_MATCHES, MAX_CHANGES,
                   pc, isdir, content, walk, queue, found, written, errors, call>>

\* line 146-147: with no phrase found the function is over
Extract(f) ==
    /\ task[f] = "extract"
    /\ \E phrases \in {extract_phrases_from_text(content[f].text, MAX_CHANGES,
                                                  COMMON_SUBSTITUTIONS)} :
         /\ found' = [found EXCEPT ![f] = phrases]
         /\ task' = [task EXCEPT ![f] = IF phrases = {} THEN "finished" ELSE "write"]
    /\ UNCHANGED <<MIN_PHRASE_LENGTH, MAX_PHRASE_LENGTH, MIN_BIP39_MATCHES, MAX_CHANGES,
                   pc, isdir, content, walk, queue, written, errors, call>>

\* line 156-158: one more line appended to the result file, or the open or the
\* write raises
WriteLine(f) ==
    /\ task[f] = "write"
    /\ \/ /\ written[f] < Cardinality(found[f])
          /\ written' = [written EXCEPT ![f] = written[f] + 1]
          /\ task' = task
       \/ /\ written[f] = Cardinality(found[f])
          /\ task' = [task EXCEPT ![f] = "finished"]
          /\ written' = written
       \/ /\ written[f] < Cardinality(found[f])
          /\ task' = [task EXCEPT ![f] = "except"]
          /\ written' = written
    /\ UNCHANGED <<MIN_PHRASE_LENGTH, MAX_PHRASE_LENGTH, MIN_BIP39_MATCHES, MAX_CHANGES,
                   pc, isdir, content, walk, queue, found, errors, call>>

\* mutant of HandleException: the failure ends the task and is not logged
HandleExceptionSilent(f) ==
    /\ errors' = errors
    /\ task' = [task EXCEPT ![f] = "finished"]
    /\ UNCHANGED pc

\* line 159-161: the handler logs the error; process_file returns normally
HandleException(f) ==
    /\ errors' = errors \cup {f}
    /\ task' = [task EXCEPT ![f] = "finished"]
    /\ UNCHANGED pc

Except(f) ==
    /\ task[f] = "except"
    /\ HandleException(f)
    /\ UNCHANGED <<MIN_PHRASE_LENGTH, MAX_PHRASE_LENGTH, MIN_BIP39_MATCHES, MAX_CHANGES,
                   isdir, content, walk, queue, found, written, call>>

Worker == \E f \in Files : OpenRead(f) \/ Extract(f) \/ WriteLine(f) \/ Except(f)

Next ==
    \/ ReadParameters
    \/ CheckDirectory
    \/ SubmitDirectory
    \/ LeaveWith
    \/ ScanReturns
    \/ TakeTask
    \/ Worker

Spec == Init /\ [][Next]_vars

\* every thread of the pool keeps running and the main thread is never starved
FairSpec == Spec /\ WF_vars(Next)

(***************************************************************************)
(* The engine functions called on their own: the parameters are set as the *)
(* script sets them, then one function is called on an input drawn from a  *)
(* bounded set.                                                            *)
(***************************************************************************)
MaxTokens == 3       \* tokens per generated text or window

W_seed == <<"s","e","e","d">>
W_key == <<"k","e","y">>
W_abstract == <<"a","b","s","t","r","a","c","t">>
W_accident == <<"a","c","c","i","d","e","n","t">>
T_l_at_mp == <<"l","@","m","p">>

\* the values typed at line 180-183: minimum and maximum phrase length,
\* minimum number of matches, maximum number of changes
EngineConfigs == { <<2, 2, 1, 0>>, <<2, 3, 2, 0>>, <<2, 3, 2, 1>>,
                   <<12, 24, 3, 0>>, <<12, 24, 3, 1>>, <<12, 24, 12, 1>> }

TokenPool == {W_seed, W_lamp, T_l_at_mp, W_abstract, W_accident}
Separators == { <<" ">>, <<" ", " ">>, <<"-">>, << >> }

TokenSeqs == UNION {[1..n -> TokenPool] : n \in 1..MaxTokens}

RECURSIVE JoinWith(_, _)
JoinWith(sep, toks) ==
    IF Len(toks) = 0 THEN << >>
    ELSE IF Len(toks) = 1 THEN toks[1]
    ELSE toks[1] \o sep \o JoinWith(sep, Tail(toks))

\* ten distinct wordlist words, none of them in TokenPool
Middle10 == << <<"i","l","l">>, <<"o","i","l">>, W_damp, <<"i","t","e","m">>,
               <<"m","o","n","k","e","y">>, <<"a","b","s","o","r","b">>,
               <<"a","b","a","n","d","o","n">>, <<"a","b","o","v","e">>,
               <<"a","b","l","e">>, <<"a","b","o","u","t">> >>

\* twelve-word phrases: a first word, the ten words above, a last word
Phrase12(first, last) == <<first>> \o Middle10 \o <<last>>
Phrases12 == {Phrase12(first, last) : first \in TokenPool \cup {W_key},
                                      last \in TokenPool \cup {W_key}}

EngineInit ==
    /\ \E c \in EngineConfigs :
         /\ MIN_PHRASE_LENGTH = c[1]
         /\ MAX_PHRASE_LENGTH = c[2]
         /\ MIN_BIP39_MATCHES = c[3]
         /\ MAX_CHANGES = c[4]
    /\ pc = "engine"
    /\ isdir = FALSE
    /\ content = [f \in Files |-> [readable |-> FALSE, text |-> << >>]]
    /\ walk = << >>
    /\ queue = << >>
    /\ task = [f \in Files |-> "none"]
    /\ found = [f \in Files |-> {}]
    /\ written = [f \in Files |-> 0]
    /\ errors = {}
    /\ call = NoCall

ProgramVars == <<MIN_PHRASE_LENGTH, MAX_PHRASE_LENGTH, MIN_BIP39_MATCHES, MAX_CHANGES,
                 pc, isdir, content, walk, queue, task, found, written, errors>>

\* the record of one call of extract_phrases_from_text on the text made of
\* tokens joined by sep; the result is kept whole and per tokenization pass
ExtractCall(tokens, sep) ==
    With(JoinWith(sep, tokens), LAMBDA text :
        With(ExtractPasses(text, MAX_CHANGES, COMMON_SUBSTITUTIONS), LAMBDA passes :
            [fn |-> "extract_phrases_from_text",
             tokens |-> tokens, sep |-> sep, text |-> text,
             cleaned |-> passes.cleaned,
             spaced |-> passes.spaced,
             hyphen |-> passes.hyphen,
             chunked |-> passes.chunked,
             ret |-> extract_phrases_from_text(text, MAX_CHANGES, COMMON_SUBSTITUTIONS)]))

CallExtract ==
    /\ call = NoCall
    /\ \E tokens \in TokenSeqs, sep \in Separators : call' = ExtractCall(tokens, sep)
    /\ UNCHANGED ProgramVars

\* extract_phrases_from_text on a twelve-word phrase separated by single
\* spaces, with the phrase lengths 12 to 24 of line 13-14
CallExtractPhrase ==
    /\ call = NoCall
    /\ MIN_PHRASE_LENGTH = 12
    /\ MAX_PHRASE_LENGTH = 24
    /\ \E tokens \in Phrases12 : call' = ExtractCall(tokens, <<" ">>)
    /\ UNCHANGED ProgramVars

\* is_valid_phrase on a window of tokens, with the window joined by spaces or
\* run together as the original phrase
CallIsValid ==
    /\ call = NoCall
    /\ \E words \in TokenSeqs, sep \in { <<" ">>, << >> } :
         call' = [fn |-> "is_valid_phrase",
                  words |-> words, original_phrase |-> JoinWith(sep, words),
                  base |-> words, edited |-> 0,
                  ret |-> is_valid_phrase(words, JoinWith(sep, words),
                                          MAX_CHANGES, COMMON_SUBSTITUTIONS)]
    /\ UNCHANGED ProgramVars

\* the one-character edits of a word
EditChars == {"d", "x", "@"}
Substitutions(w) == {[w EXCEPT ![p] = c] : p \in 1..Len(w), c \in EditChars} \ {w}
Insertions(w) == {SubSeq(w, 1, p) \o <<c>> \o SubSeq(w, p + 1, Len(w)) :
                     p \in 0..Len(w), c \in EditChars}
Deletions(w) == {SubSeq(w, 1, p - 1) \o SubSeq(w, p + 1, Len(w)) : p \in 1..Len(w)}
Edits(w) == Substitutions(w) \cup Insertions(w) \cup Deletions(w)

BasePhrase == Phrase12(W_lamp, W_abstract)

\* is_valid_phrase on a twelve-word phrase with one word edited, as the
\* whitespace pass would pass it
CallIsValidEdited ==
    /\ call = NoCall
    /\ MIN_PHRASE_LENGTH = 12
    /\ MAX_PHRASE_LENGTH = 24
    /\ \E k \in 1..Len(BasePhrase) : \E e \in Edits(BasePhrase[k]) :
         LET words == [BasePhrase EXCEPT ![k] = e]
         IN call' = [fn |-> "is_valid_phrase",
                     words |-> words, original_phrase |-> Join(words),
                     base |-> BasePhrase, edited |-> k,
                     ret |-> is_valid_phrase(words, Join(words),
                                             MAX_CHANGES, COMMON_SUBSTITUTIONS)]
    /\ UNCHANGED ProgramVars

\* wordlist words with one canonical letter written as one of its glyphs
NormalizeInputs ==
    TokenPool \cup {Replace(w, pair[1], pair[2]) :
                       w \in BIP39_WORDS, pair \in Range(COMMON_SUBSTITUTIONS)}

CallNormalize ==
    /\ call = NoCall
    /\ \E word \in NormalizeInputs :
         call' = [fn |-> "normalize_word", word |-> word,
                  ret |-> normalize_word(word, COMMON_SUBSTITUTIONS)]
    /\ UNCHANGED ProgramVars

CleanPool == {W_seed, <<"B","t","c">>, W_key, <<"1","2","3">>, W_lamp}
CleanSeparators == { <<" ">>, << >>, <<"\n">> }
CleanTexts ==
    {JoinWith(sep, toks) \o tail :
        toks \in UNION {[1..n -> CleanPool] : n \in 1..MaxTokens},
        sep \in CleanSeparators, tail \in { << >>, <<"\n">> }}

CallClean ==
    /\ call = NoCall
    /\ \E text \in CleanTexts :
         call' = [fn |-> "clean_prefix_suffix", text |-> text,
                  ret |-> clean_prefix_suffix(text)]
    /\ UNCHANGED ProgramVars

EngineNext ==
    \/ CallExtract
    \/ CallExtractPhrase
    \/ CallIsValid
    \/ CallIsValidEdited
    \/ CallNormalize
    \/ CallClean

EngineSpec == EngineInit /\ [][EngineNext]_vars

(***************************************************************************)
(* Properties                                                              *)
(***************************************************************************)
Distinct(seq) == \A i, j \in 1..Len(seq) : i # j => seq[i] # seq[j]

IsSubstring(s, t) ==
    \E a \in 0..(Len(t) - Len(s)) : \A i \in 1..Len(s) : t[a + i] = s[i]

\* the ways to cut s into wordlist words
RECURSIVE Segmentations(_)
Segmentations(s) ==
    IF s = << >> THEN { << >> }
    ELSE UNION { {<<w>> \o rest : rest \in Segmentations(SubSeq(s, Len(w) + 1, Len(s)))} :
                    w \in {w \in BIP39_WORDS : StartsWith(s, w)} }

\* two tokens of the window have the same normalized form
RepeatsWord(words) ==
    \E i, j \in 1..Len(words) :
        /\ i # j
        /\ normalize_word(words[i], COMMON_SUBSTITUTIONS)
             = normalize_word(words[j], COMMON_SUBSTITUTIONS)

ExtractCalled == call.fn = "extract_phrases_from_text"
IsValidCalled == call.fn = "is_valid_phrase"

\* C1: with phrase lengths 12 to 24 and 3 matches required, a text of twelve
\* distinct wordlist words separated by single spaces yields exactly one
\* candidate, the text itself, whatever max_changes is.
C1_OnePhraseCandidate ==
    ( /\ ExtractCalled
      /\ MIN_PHRASE_LENGTH = 12 /\ MAX_PHRASE_LENGTH = 24 /\ MIN_BIP39_MATCHES = 3
      /\ call.sep = <<" ">>
      /\ Len(call.tokens) = 12
      /\ \A i \in 1..12 : call.tokens[i] \in BIP39_WORDS
      /\ Distinct(call.tokens) )
    => call.ret = {call.text}

\* C2: a text that runs k distinct wordlist words together (k within the
\* phrase lengths, no other way to cut it into wordlist words, length within
\* the concatenated-length heuristic) has its k-word split among the
\* candidates of the concatenated-text pass.  Stated for the texts that
\* clean_prefix_suffix leaves as they are.
C2_ConcatenatedRecovered ==
    ( /\ ExtractCalled
      /\ call.sep = << >>
      /\ call.cleaned = call.text
      /\ \A i \in 1..Len(call.tokens) : call.tokens[i] \in BIP39_WORDS
      /\ Distinct(call.tokens)
      /\ MIN_PHRASE_LENGTH <= Len(call.tokens) /\ Len(call.tokens) <= MAX_PHRASE_LENGTH
      /\ MIN_PHRASE_LENGTH * 8 <= Len(call.text) /\ Len(call.text) <= MAX_PHRASE_LENGTH * 8
      /\ Segmentations(call.text) = {call.tokens} )
    => Join(call.tokens) \in call.chunked

EditedCalled == IsValidCalled /\ call.edited > 0
EditedWord == normalize_word(call.words[call.edited], COMMON_SUBSTITUTIONS)
EditedIsHit ==
    \/ EditedWord \in BIP39_WORDS
    \/ \E w \in BIP39_WORDS : Len(w) = Len(EditedWord) /\ levenshtein_distance(EditedWord, w) <= 1

\* C3 as stated: a twelve-word phrase with one word replaced by any
\* one-character edit of it (insertion, deletion or substitution) is accepted
\* with max_changes = 1 and the edited word counts as a hit, for every
\* MIN_BIP39_MATCHES up to 12.
C3_AnyEditAccepted ==
    (EditedCalled /\ MAX_CHANGES = 1 /\ MIN_BIP39_MATCHES <= 12)
    => (call.ret = TRUE /\ EditedIsHit)

\* C3 amended: the same for a one-character substitution (the edited word
\* keeps its length) that leaves the normalized forms of the twelve words
\* pairwise distinct.
C3_SubstitutionAccepted ==
    ( /\ EditedCalled /\ MAX_CHANGES = 1 /\ MIN_BIP39_MATCHES <= 12
      /\ Len(call.words[call.edited]) = Len(call.base[call.edited])
      /\ ~RepeatsWord(call.words) )
    => (call.ret = TRUE /\ EditedIsHit)

\* a substituted word that is no wordlist word was accepted as the twelfth hit
C3_Witness ==
    /\ EditedCalled /\ MAX_CHANGES = 1 /\ MIN_BIP39_MATCHES = 12
    /\ Len(call.words[call.edited]) = Len(call.base[call.edited])
    /\ EditedWord \notin BIP39_WORDS
    /\ call.ret = TRUE

\* C4: is_valid_phrase returns False for every window in which two tokens
\* have the same normalized form, and a text whose tokens repeat a word is
\* not among the candidates extract_phrases_from_text returns, nor is any
\* candidate of the whitespace and hyphen passes such a text.
C4_NoDuplicates ==
    /\ (IsValidCalled /\ RepeatsWord(call.words)) => call.ret = FALSE
    /\ ExtractCalled =>
         /\ RepeatsWord([i \in 1..Len(call.tokens) |-> CleanWord(call.tokens[i])])
              => JoinWith(<<" ">>, call.tokens) \notin call.ret
         /\ \A s \in call.spaced \cup call.hyphen :
              ~RepeatsWord([i \in 1..Len(Split(s)) |-> CleanWord(Split(s)[i])])

\* a window of the right length, every token a hit, two different tokens with
\* the same normalized form: only the duplicate rule rejects it
C4_Witness ==
    /\ IsValidCalled
    /\ call.edited = 0
    /\ MIN_PHRASE_LENGTH <= Len(call.words) /\ Len(call.words) <= MAX_PHRASE_LENGTH
    /\ Len(call.words) >= MIN_BIP39_MATCHES
    /\ Contains(call.original_phrase, " ")
    /\ \A i \in 1..Len(call.words) :
          normalize_word(call.words[i], COMMON_SUBSTITUTIONS) \in BIP39_WORDS
    /\ \E i, j \in 1..Len(call.words) :
          /\ call.words[i] # call.words[j]
          /\ normalize_word(call.words[i], COMMON_SUBSTITUTIONS)
               = normalize_word(call.words[j], COMMON_SUBSTITUTIONS)
    /\ call.ret = FALSE

WordCountInBounds(s) ==
    MIN_PHRASE_LENGTH <= Len(Split(s)) /\ Len(Split(s)) <= MAX_PHRASE_LENGTH

C6_VerbatimSubstring ==
    ExtractCalled => \A s \in call.ret : IsSubstring(s, call.text)

\* the repairs of a token: the wordlist words obtained by replacing one glyph
\* of the table by its canonical letter
Repairs(word) ==
    {Replace(word, pair[2], pair[1]) :
        pair \in {q \in Range(COMMON_SUBSTITUTIONS) :
                     Contains(word, q[2]) /\ Replace(word, q[2], q[1]) \in BIP39_WORDS}}

\* C7: normalize_word returns the wordlist word that replacing a glyph of the
\* table by its canonical letter gives, for a token that is no wordlist word;
\* and such a token counts as a hit in a window of the whitespace and hyphen
\* passes, so that a text of distinct tokens, each a wordlist word or
\* repaired to one, is a candidate.
C7_SubstitutionRepair ==
    /\ (call.fn = "normalize_word" /\ Lower(call.word) \notin BIP39_WORDS)
         => \A r \in Repairs(call.word) : call.ret = r
    /\ ( /\ ExtractCalled
         /\ call.sep \in { <<" ">>, <<"-">> }
         /\ call.cleaned = call.text
         /\ MIN_PHRASE_LENGTH <= Len(call.tokens) /\ Len(call.tokens) <= MAX_PHRASE_LENGTH
         /\ MIN_BIP39_MATCHES <= Len(call.tokens)
         /\ \A i \in 1..Len(call.tokens) :
               call.tokens[i] \in BIP39_WORDS \/ Repairs(call.tokens[i]) # {}
         /\ \A i, j \in 1..Len(call.tokens) :
               i # j => ({call.tokens[i]} \cup Repairs(call.tokens[i]))
                          \cap ({call.tokens[j]} \cup Repairs(call.tokens[j])) = {} )
       => JoinWith(<<" ">>, call.tokens) \in call.ret

\* C8: no file is submitted for processing while the minimum phrase length is
\* greater than the maximum.
C8_FailFast ==
    MIN_PHRASE_LENGTH > MAX_PHRASE_LENGTH => \A f \in Files : task[f] = "none"

\* what a file's processing must have done when it did not fail
Processed(f) ==
    /\ content[f].readable
    /\ found[f] = extract_phrases_from_text(content[f].text, MAX_CHANGES, COMMON_SUBSTITUTIONS)
    /\ written[f] = Cardinality(found[f])

\* C9: whatever the interleaving, a file whose processing fails is logged and
\* skipped, every other file is processed to completion with its candidates
\* written, and scan_directory returns.
C9_FailureIsolation ==
    /\ [](\A f \in Files :
            task[f] = "finished" =>
                /\ f \notin errors => Processed(f)
                /\ ~content[f].readable => f \in errors)
    /\ [](pc = "done" => \A f \in Files : task[f] = "finished")
    /\ [](pc = "walking" => <>(pc = "done"))

\* the scan is over, one file failed and another has its candidates written
C9_Witness ==
    /\ pc = "done"
    /\ \E f, g \in Files :
          /\ f \in errors
          /\ g \notin errors
          /\ written[g] > 0

\* C10: a text that starts with one of the prefixes followed by further
\* content is returned without the prefix; otherwise a text that ends with one
\* of the suffixes is returned without the suffix; a text matching neither is
\* returned unchanged.
C10_PrefixSuffixRemoved ==
    call.fn = "clean_prefix_suffix" =>
        LET text == call.text
            prefixes == {p \in Range(Prefixes) :
                            StartsWith(Lower(text), p) /\ Len(text) > Len(p)}
            suffixes == {x \in Range(Suffixes) :
                            EndsWith(Lower(text), x) /\ Len(text) > Len(x)}
        IN IF prefixes # {}
           THEN \E p \in prefixes :
                   call.ret \in {SubSeq(text, Len(p) + 1, Len(text)),
                                 Strip(SubSeq(text, Len(p) + 1, Len(text)))}
           ELSE IF suffixes # {}
           THEN \E x \in suffixes :
                   call.ret \in {SubSeq(text, 1, Len(text) - Len(x)),
                                 Strip(SubSeq(text, 1, Len(text) - Len(x)))}
           ELSE call.ret = text

====
